---- MODULE Spec2Model ----
(***************************************************************************)
(* A model of the console to-do list manager of src/main.cpp: the Task     *)
(* record and its CSV codec, the TaskManager store, and the menu loop of   *)
(* main() that drives the store.                                           *)
(*                                                                         *)
(* A std::string is a sequence of one-character strings, so that trim,     *)
(* escapeCommas, unescapeCommas, toCsv, fromCsv and std::stoi are computed *)
(* character by character, as the code computes them.  The file is either  *)
(* NoFile (it does not exist or cannot be opened) or holds the sequence of *)
(* its lines, as std::getline delivers them.                               *)
(*                                                                         *)
(* nextId is an int: adding 1 to INT_MAX is undefined, and the outcomes    *)
(* modelled are those builds produce, the wrap to INT_MIN (PlusOne) and    *)
(* the trap (LoadTrap).  Under Spec ids stay a few digits long and neither *)
(* happens; WideSpec starts from a file that holds the id INT_MAX.         *)
(* std::stoi's out_of_range check is modelled.                             *)
(***************************************************************************)
EXTENDS Integers, Sequences, FiniteSets, TLC

VARIABLES
    tasks,      \* TaskManager::tasks, the vector of Task records
    nextId,     \* TaskManager::nextId
    file,       \* the content of savePath: NoFile, or its lines
    writable,   \* whether savePath can be opened for writing
    pc,         \* where main() is: "start", "menu", "title", "done"
    out,        \* what the last command that called the store reported: its
                \* name, its result and the id addTask returned
    sinceLoad,  \* history: the largest id addTask returned since the last
                \* successful load (0: none yet)
    everIssued  \* history: the largest id addTask returned since construction
                \* (0: none yet)

vars == <<tasks, nextId, file, writable, pc, out, sinceLoad, everIssued>>

-----------------------------------------------------------------------------
(* Bounds of the model. *)

\* addTask is not called once the collection holds MaxTasks records.
MaxTasks == 2

\* addTask is not called once nextId exceeds MaxId.
MaxId == 3

-----------------------------------------------------------------------------
(* Characters and std::string helpers. *)

IntMax == 2147483647

IntMin == -IntMax - 1

\* A file that does not exist or cannot be opened for reading.
NoFile == [exists |-> FALSE, lines |-> <<>>]

\* A file that can be read, holding these lines.
FileOf(lines) == [exists |-> TRUE, lines |-> lines]

\* The characters trim() strips: " \t\r\n".
TrimChars == {" ", "\t", "\r", "\n"}

\* The characters std::isspace accepts, which std::stoi skips first.
SpaceChars == {" ", "\t", "\n", "\r", "\f"}

DigitChars == <<"0", "1", "2", "3", "4", "5", "6", "7", "8", "9">>

IsDigit(c) == \E i \in 1..10 : DigitChars[i] = c

DigitVal(c) == (CHOOSE i \in 1..10 : DigitChars[i] = c) - 1

\* s.find_first_not_of(" \t\r\n"), 1-based; 0 stands for npos.
RECURSIVE FirstNotOf(_, _)
FirstNotOf(s, i) ==
    IF i > Len(s) THEN 0
    ELSE IF s[i] \notin TrimChars THEN i
    ELSE FirstNotOf(s, i + 1)

\* s.find_last_not_of(" \t\r\n"), 1-based; 0 stands for npos.
RECURSIVE LastNotOf(_, _)
LastNotOf(s, i) ==
    IF i < 1 THEN 0
    ELSE IF s[i] \notin TrimChars THEN i
    ELSE LastNotOf(s, i - 1)

trim(s) ==
    LET a == FirstNotOf(s, 1)
        b == LastNotOf(s, Len(s))
    IN  IF a = 0 THEN <<>> ELSE SubSeq(s, a, b)

-----------------------------------------------------------------------------
(* std::stoi and operator<<(int). *)

RECURSIVE SkipSpaces(_)
SkipSpaces(s) ==
    IF s # <<>> /\ Head(s) \in SpaceChars THEN SkipSpaces(Tail(s)) ELSE s

RECURSIVE DigitPrefix(_)
DigitPrefix(s) ==
    IF s # <<>> /\ IsDigit(Head(s))
    THEN <<Head(s)>> \o DigitPrefix(Tail(s))
    ELSE <<>>

\* The digits ds accumulated as a non-positive number, down to limit;
\* ok is FALSE when the value leaves the range of int (std::out_of_range).
RECURSIVE Accumulate(_, _, _)
Accumulate(ds, acc, limit) ==
    IF ds = <<>> THEN [ok |-> TRUE, val |-> acc]
    ELSE LET d == DigitVal(Head(ds))
         IN  IF acc < -(IntMax \div 10) THEN [ok |-> FALSE, val |-> 0]
             ELSE IF acc * 10 < limit + d THEN [ok |-> FALSE, val |-> 0]
             ELSE Accumulate(Tail(ds), acc * 10 - d, limit)

\* std::stoi(s): leading white space, an optional sign, then the longest run
\* of digits; whatever follows the digits is ignored.  ok is FALSE where
\* std::stoi throws (no digit: invalid_argument; too large: out_of_range).
stoi(s) ==
    LET t   == SkipSpaces(s)
        neg == t # <<>> /\ Head(t) = "-"
        u   == IF t # <<>> /\ Head(t) \in {"+", "-"} THEN Tail(t) ELSE t
        ds  == DigitPrefix(u)
        r   == Accumulate(ds, 0, IF neg THEN IntMin ELSE -IntMax)
    IN  IF ds = <<>> \/ ~r.ok THEN [ok |-> FALSE, val |-> 0]
        ELSE [ok |-> TRUE, val |-> IF neg THEN r.val ELSE -r.val]

\* The decimal digits of n < 0, without the sign.
RECURSIVE NegDigits(_)
NegDigits(n) ==
    IF n = 0 THEN <<>>
    ELSE LET d == (10 - (n % 10)) % 10
         IN  NegDigits((n + d) \div 10) \o <<DigitChars[d + 1]>>

\* oss << id
IntToStr(n) ==
    IF n = 0 THEN <<"0">>
    ELSE IF n < 0 THEN <<"-">> \o NegDigits(n)
    ELSE NegDigits(-n)

-----------------------------------------------------------------------------
(* Task and its CSV codec. *)

Task(id, title, notes, completed) ==
    [id |-> id, title |-> title, notes |-> notes, completed |-> completed]

\* escapeCommas without its "strip newlines" branch.
RECURSIVE escapeCommas_KeepBreaks(_)
escapeCommas_KeepBreaks(in) ==
    IF in = <<>> THEN <<>>
    ELSE LET c == Head(in)
         IN  (IF c = "," THEN <<"\\", ",">> ELSE <<c>>)
                 \o escapeCommas_KeepBreaks(Tail(in))

RECURSIVE escapeCommas(_)
escapeCommas(in) ==
    IF in = <<>> THEN <<>>
    ELSE LET c == Head(in)
         IN  (IF c = "," THEN <<"\\", ",">>
              ELSE IF c = "\n" \/ c = "\r" THEN <<" ">>
              ELSE <<c>>) \o escapeCommas(Tail(in))

RECURSIVE unescapeCommas(_)
unescapeCommas(in) ==
    IF in = <<>> THEN <<>>
    ELSE IF Head(in) = "\\" /\ Len(in) > 1 /\ in[2] = ","
         THEN <<",">> \o unescapeCommas(Tail(Tail(in)))
    ELSE <<Head(in)>> \o unescapeCommas(Tail(in))

toCsv(t) ==
    IntToStr(t.id) \o <<",">> \o (IF t.completed THEN <<"1">> ELSE <<"0">>)
        \o <<",">> \o escapeCommas(t.title) \o <<",">> \o escapeCommas(t.notes)

\* The loop of fromCsv that splits the line: parts pushed so far, the part
\* being collected, and whether the previous character was a backslash.
RECURSIVE SplitLine(_, _, _, _, _)
SplitLine(line, i, parts, current, escape) ==
    IF i > Len(line) THEN Append(parts, current)
    ELSE LET c == line[i]
         IN  IF escape THEN SplitLine(line, i + 1, parts, Append(current, c), FALSE)
             ELSE IF c = "\\" THEN SplitLine(line, i + 1, parts, current, TRUE)
             ELSE IF c = "," THEN SplitLine(line, i + 1, Append(parts, current), <<>>, FALSE)
             ELSE SplitLine(line, i + 1, parts, Append(current, c), FALSE)

\* Task::Task(): what outTask holds when fromCsv returns false.
DefaultTask == Task(-1, <<>>, <<>>, FALSE)

fromCsv(line) ==
    LET parts == SplitLine(line, 1, <<>>, <<>>, FALSE)
    IN  IF Len(parts) < 4 THEN [ok |-> FALSE, task |-> DefaultTask]
        ELSE LET id   == stoi(parts[1])
                 done == stoi(parts[2])
             IN  IF ~id.ok \/ ~done.ok THEN [ok |-> FALSE, task |-> DefaultTask]
                 ELSE [ok   |-> TRUE,
                       task |-> Task(id.val, unescapeCommas(parts[3]),
                                     unescapeCommas(parts[4]), done.val # 0)]

-----------------------------------------------------------------------------
(* TaskManager. *)

\* n + 1 in an int, where the build does not trap: INT_MAX + 1 wraps.
PlusOne(n) == IF n = IntMax THEN IntMin ELSE n + 1

\* generateId with "return nextId;" for "return nextId++;".
generateId_NoIncrement(nid) == [ret |-> nid, nextId |-> nid]

generateId(nid) == [ret |-> nid, nextId |-> PlusOne(nid)]

\* The loop of load with "maxSeen = t.getId();" not guarded by the comparison.
RECURSIVE LoadLines_LastSeen(_, _, _, _)
LoadLines_LastSeen(lines, i, ts, maxSeen) ==
    IF i > Len(lines) THEN [tasks |-> ts, maxSeen |-> maxSeen]
    ELSE LET line == trim(lines[i])
             r    == fromCsv(line)
         IN  IF line = <<>> THEN LoadLines_LastSeen(lines, i + 1, ts, maxSeen)
             ELSE IF r.ok
             THEN LoadLines_LastSeen(lines, i + 1, Append(ts, r.task), r.task.id)
             ELSE LoadLines_LastSeen(lines, i + 1, ts, maxSeen)

\* The while loop of load: the tasks pushed and maxSeen after lines i..
RECURSIVE LoadLines(_, _, _, _)
LoadLines(lines, i, ts, maxSeen) ==
    IF i > Len(lines) THEN [tasks |-> ts, maxSeen |-> maxSeen]
    ELSE LET line == trim(lines[i])
             r    == fromCsv(line)
         IN  IF line = <<>> THEN LoadLines(lines, i + 1, ts, maxSeen)
             ELSE IF r.ok
             THEN LoadLines(lines, i + 1, Append(ts, r.task),
                            IF r.task.id > maxSeen THEN r.task.id ELSE maxSeen)
             ELSE LoadLines(lines, i + 1, ts, maxSeen)

\* load without tasks.clear().
load_Merge(ts, nid, f) ==
    IF ~f.exists THEN [ret |-> FALSE, tasks |-> ts, nextId |-> nid]
    ELSE LET r == LoadLines(f.lines, 1, ts, 0)
         IN  [ret |-> TRUE, tasks |-> r.tasks, nextId |-> PlusOne(r.maxSeen)]

\* load with "nextId = maxSeen;" for "nextId = maxSeen + 1;".
load_OffByOne(ts, nid, f) ==
    IF ~f.exists THEN [ret |-> FALSE, tasks |-> ts, nextId |-> nid]
    ELSE LET r == LoadLines(f.lines, 1, <<>>, 0)
         IN  [ret |-> TRUE, tasks |-> r.tasks, nextId |-> r.maxSeen]

\* load with tasks.clear() moved above the is_open() test.
load_ClearFirst(ts, nid, f) ==
    IF ~f.exists THEN [ret |-> FALSE, tasks |-> <<>>, nextId |-> nid]
    ELSE LET r == LoadLines(f.lines, 1, <<>>, 0)
         IN  [ret |-> TRUE, tasks |-> r.tasks, nextId |-> PlusOne(r.maxSeen)]

load(ts, nid, f) ==
    IF ~f.exists THEN [ret |-> FALSE, tasks |-> ts, nextId |-> nid]
    ELSE LET r == LoadLines(f.lines, 1, <<>>, 0)
         IN  [ret |-> TRUE, tasks |-> r.tasks, nextId |-> PlusOne(r.maxSeen)]

\* What the loop of save writes for ts[i], ts[i+1], ..: out << t.toCsv() << "\n".
RECURSIVE Written(_, _)
Written(ts, i) ==
    IF i > Len(ts) THEN <<>>
    ELSE toCsv(ts[i]) \o <<"\n">> \o Written(ts, i + 1)

\* The lines std::getline delivers from these characters: each ends at a
\* "\n", and characters after the last "\n" make a last line.
RECURSIVE GetLines(_, _, _, _)
GetLines(content, i, current, lines) ==
    IF i > Len(content)
    THEN IF current = <<>> THEN lines ELSE Append(lines, current)
    ELSE IF content[i] = "\n"
    THEN GetLines(content, i + 1, <<>>, Append(lines, current))
    ELSE GetLines(content, i + 1, Append(current, content[i]), lines)

\* std::ios::trunc: what the file held before is gone.
save(ts, f, w) ==
    IF ~w THEN [ret |-> FALSE, file |-> f]
    ELSE [ret |-> TRUE, file |-> FileOf(GetLines(Written(ts, 1), 1, <<>>, <<>>))]

\* addTask with tasks.insert(tasks.begin(), t) for tasks.push_back(t).
addTask_Prepend(ts, nid, title, notes) ==
    LET g == generateId(nid)
    IN  [ret    |-> g.ret,
         tasks  |-> <<Task(g.ret, title, notes, FALSE)>> \o ts,
         nextId |-> g.nextId]

addTask(ts, nid, title, notes) ==
    LET g == generateId(nid)
    IN  [ret    |-> g.ret,
         tasks  |-> Append(ts, Task(g.ret, title, notes, FALSE)),
         nextId |-> g.nextId]

\* The search loop falling through to the last record instead of ending
\* without a match.
RECURSIVE FindById_OffEnd(_, _, _)
FindById_OffEnd(ts, id, i) ==
    IF i > Len(ts) THEN Len(ts)
    ELSE IF ts[i].id = id THEN i
    ELSE FindById_OffEnd(ts, id, i + 1)

\* The index of the first record with this id; 0 when there is none.
RECURSIVE FindById(_, _, _)
FindById(ts, id, i) ==
    IF i > Len(ts) THEN 0
    ELSE IF ts[i].id = id THEN i
    ELSE FindById(ts, id, i + 1)

removeById(ts, id) ==
    LET i == FindById(ts, id, 1)
    IN  IF i = 0 THEN [ret |-> FALSE, tasks |-> ts]
        ELSE [ret   |-> TRUE,
              tasks |-> SubSeq(ts, 1, i - 1) \o SubSeq(ts, i + 1, Len(ts))]

\* toggleComplete with "t.setCompleted(true);".
toggleComplete_SetTrue(ts, id) ==
    LET i == FindById(ts, id, 1)
    IN  IF i = 0 THEN [ret |-> FALSE, tasks |-> ts]
        ELSE [ret   |-> TRUE,
              tasks |-> [ts EXCEPT ![i].completed = TRUE]]

toggleComplete(ts, id) ==
    LET i == FindById(ts, id, 1)
    IN  IF i = 0 THEN [ret |-> FALSE, tasks |-> ts]
        ELSE [ret   |-> TRUE,
              tasks |-> [ts EXCEPT ![i].completed = ~ts[i].completed]]

\* editTask without its two empty() tests.
editTask_Overwrite(ts, id, newTitle, newNotes) ==
    LET i == FindById(ts, id, 1)
    IN  IF i = 0 THEN [ret |-> FALSE, tasks |-> ts]
        ELSE [ret   |-> TRUE,
              tasks |-> [ts EXCEPT ![i].title = newTitle, ![i].notes = newNotes]]

editTask(ts, id, newTitle, newNotes) ==
    LET i == FindById(ts, id, 1)
    IN  IF i = 0 THEN [ret |-> FALSE, tasks |-> ts]
        ELSE [ret   |-> TRUE,
              tasks |-> [ts EXCEPT
                           ![i].title = IF newTitle # <<>> THEN newTitle ELSE @,
                           ![i].notes = IF newNotes # <<>> THEN newNotes ELSE @]]

list(ts) == ts

clearAll(ts) == [ret |-> TRUE, tasks |-> <<>>]

-----------------------------------------------------------------------------
(* What the user types, and what the file holds when the program starts. *)

\* Lines typed at the title prompts, as std::getline reads them.
RawTitles == { <<>>, <<" ">>, <<" ", "a">> }

\* Lines typed at the notes prompts.
RawNotes == { <<>>, <<" ">> }

\* Numbers typed at the id prompts.
IdInputs == 0..MaxId

\* Characters typed at the confirmation prompt of "Clear all tasks".
ConfirmInputs == {"y", "Y", "n"}

\* tasks.csv before the program starts: absent, empty, written by an
\* earlier run (ids out of order after removals), or edited by hand
\* (a duplicated id, a negative id, blank and malformed lines).
InitLines ==
    { <<>>,
      << <<"2", ",", "1", ",", "b", ",", "n">>,
         <<"1", ",", "0", ",", "a", ",">> >>,
      << <<"1", ",", "0", ",", "a", ",">>,
         <<"1", ",", "1", ",", "a", ",">> >>,
      << <<"-", "1", ",", "0", ",", "a", ",">> >>,
      << <<"x", ",", "0", ",", "a", ",">>,
         <<"1", ",", "0", ",", "a", ",">>,
         <<" ">>,
         <<"2", ",", "0", ",", "a">>,
         <<"2", ",", "y", ",", "a", ",">>,
         <<" ", "2", ",", "1", ",", "a", ",">> >> }

InitFiles == {NoFile} \cup {FileOf(ls) : ls \in InitLines}

-----------------------------------------------------------------------------
(* main(): the menu loop. *)

Max(a, b) == IF a > b THEN a ELSE b

Report(op, ok, id) == [op |-> op, ok |-> ok, id |-> id]

Init ==
    /\ tasks = <<>>
    /\ nextId = 1
    /\ file \in InitFiles
    /\ writable \in BOOLEAN
    /\ pc = "start"
    /\ out = Report("none", TRUE, 0)
    /\ sinceLoad = 0
    /\ everIssued = 0

\* manager.load() and what follows from its result.
DoLoad ==
    LET r == load(tasks, nextId, file)
    IN  /\ tasks' = r.tasks
        /\ nextId' = r.nextId
        /\ out' = Report("load", r.ret, 0)
        /\ sinceLoad' = IF r.ret THEN 0 ELSE sinceLoad
        /\ UNCHANGED <<file, writable, everIssued>>

\* "Auto load on start", before the first menu.
Startup ==
    /\ pc = "start"
    /\ DoLoad
    /\ pc' = "menu"

\* choice == 1: printTasks(manager.list()) prints and changes nothing.
MenuList ==
    /\ pc = "menu"
    /\ UNCHANGED vars

\* choice == 2: the first "Enter title: " prompt.  Where nextId has
\* wrapped, ids are counted from INT_MIN.
MenuAdd ==
    /\ pc = "menu"
    /\ Len(tasks) < MaxTasks
    /\ \/ nextId \in 1..MaxId
       \/ nextId < IntMin + MaxId
    /\ pc' = "title"
    /\ UNCHANGED <<tasks, nextId, file, writable, out, sinceLoad, everIssued>>

\* The title typed is empty after trim: "Title cannot be empty.", and the
\* prompt again.
RejectTitle(raw) ==
    /\ pc = "title"
    /\ trim(raw) = <<>>
    /\ out' = Report("reject", FALSE, 0)
    /\ UNCHANGED <<tasks, nextId, file, writable, pc, sinceLoad, everIssued>>

\* The add command without its "while (title.empty())" loop.
AcceptTitle_Unchecked(rawTitle, rawNotes) ==
    /\ pc = "title"
    /\ LET r == addTask(tasks, nextId, trim(rawTitle), trim(rawNotes))
       IN  /\ tasks' = r.tasks
           /\ nextId' = r.nextId
           /\ out' = Report("add", TRUE, r.ret)
           /\ sinceLoad' = Max(sinceLoad, r.ret)
           /\ everIssued' = Max(everIssued, r.ret)
    /\ pc' = "menu"
    /\ UNCHANGED <<file, writable>>

\* The title typed is not empty: the notes are read and addTask is called.
AcceptTitle(rawTitle, rawNotes) ==
    /\ pc = "title"
    /\ trim(rawTitle) # <<>>
    /\ LET r == addTask(tasks, nextId, trim(rawTitle), trim(rawNotes))
       IN  /\ tasks' = r.tasks
           /\ nextId' = r.nextId
           /\ out' = Report("add", TRUE, r.ret)
           /\ sinceLoad' = Max(sinceLoad, r.ret)
           /\ everIssued' = Max(everIssued, r.ret)
    /\ pc' = "menu"
    /\ UNCHANGED <<file, writable>>

\* choice == 3
MenuToggle(id) ==
    /\ pc = "menu"
    /\ LET r == toggleComplete(tasks, id)
       IN  /\ tasks' = r.tasks
           /\ out' = Report("toggle", r.ret, 0)
    /\ UNCHANGED <<nextId, file, writable, pc, sinceLoad, everIssued>>

\* choice == 4
MenuEdit(id, rawTitle, rawNotes) ==
    /\ pc = "menu"
    /\ LET r == editTask(tasks, id, trim(rawTitle), trim(rawNotes))
       IN  /\ tasks' = r.tasks
           /\ out' = Report("edit", r.ret, 0)
    /\ UNCHANGED <<nextId, file, writable, pc, sinceLoad, everIssued>>

\* choice == 5
MenuRemove(id) ==
    /\ pc = "menu"
    /\ LET r == removeById(tasks, id)
       IN  /\ tasks' = r.tasks
           /\ out' = Report("remove", r.ret, 0)
    /\ UNCHANGED <<nextId, file, writable, pc, sinceLoad, everIssued>>

\* choice == 6 with a clearAll that also sets nextId back to 1.
MenuClear_ResetId(confirm) ==
    /\ pc = "menu"
    /\ IF confirm = "y" \/ confirm = "Y"
       THEN /\ tasks' = clearAll(tasks).tasks
            /\ nextId' = 1
            /\ out' = Report("clear", TRUE, 0)
       ELSE /\ tasks' = tasks
            /\ nextId' = nextId
            /\ out' = Report("cancel", FALSE, 0)
    /\ UNCHANGED <<file, writable, pc, sinceLoad, everIssued>>

\* choice == 6
MenuClear(confirm) ==
    /\ pc = "menu"
    /\ IF confirm = "y" \/ confirm = "Y"
       THEN /\ tasks' = clearAll(tasks).tasks
            /\ out' = Report("clear", TRUE, 0)
       ELSE /\ tasks' = tasks
            /\ out' = Report("cancel", FALSE, 0)
    /\ UNCHANGED <<nextId, file, writable, pc, sinceLoad, everIssued>>

\* choice == 7
MenuSave ==
    /\ pc = "menu"
    /\ LET r == save(tasks, file, writable)
       IN  /\ file' = r.file
           /\ out' = Report("save", r.ret, 0)
    /\ UNCHANGED <<tasks, nextId, writable, pc, sinceLoad, everIssued>>

\* choice == 8
MenuLoad ==
    /\ pc = "menu"
    /\ DoLoad
    /\ pc' = pc

\* choice == 9 without "manager.save();".
MenuExit_NoSave ==
    /\ pc = "menu"
    /\ out' = Report("exit", writable, 0)
    /\ pc' = "done"
    /\ UNCHANGED <<tasks, nextId, file, writable, sinceLoad, everIssued>>

\* choice == 9
MenuExit ==
    /\ pc = "menu"
    /\ LET r == save(tasks, file, writable)
       IN  /\ file' = r.file
           /\ out' = Report("exit", r.ret, 0)
    /\ pc' = "done"
    /\ UNCHANGED <<tasks, nextId, writable, sinceLoad, everIssued>>

\* Any other choice: "Invalid choice."
MenuInvalid ==
    /\ pc = "menu"
    /\ UNCHANGED vars

Next ==
    \/ Startup
    \/ MenuList
    \/ MenuAdd
    \/ \E raw \in RawTitles : RejectTitle(raw)
    \/ \E rawTitle \in RawTitles, rawNotes \in RawNotes : AcceptTitle(rawTitle, rawNotes)
    \/ \E id \in IdInputs : MenuToggle(id)
    \/ \E id \in IdInputs, rawTitle \in RawTitles, rawNotes \in RawNotes :
           MenuEdit(id, rawTitle, rawNotes)
    \/ \E id \in IdInputs : MenuRemove(id)
    \/ \E confirm \in ConfirmInputs : MenuClear(confirm)
    \/ MenuSave
    \/ MenuLoad
    \/ MenuExit
    \/ MenuInvalid

Spec == Init /\ [][Next]_vars

-----------------------------------------------------------------------------
(* Properties of the store under the menu loop. *)

\* A step in which the add command calls addTask.
AddStep ==
    \E rawTitle \in RawTitles, rawNotes \in RawNotes : AcceptTitle(rawTitle, rawNotes)

\* The last command that called the store was a load, and it succeeded.
LoadedOk == out.op = "load" /\ out.ok

\* The largest id in a collection that is not empty.
MaxIdOf(ts) ==
    CHOOSE m \in {ts[i].id : i \in DOMAIN ts} : \A i \in DOMAIN ts : ts[i].id <= m

\* C1: every id addTask returns is strictly greater than every id it
\* returned before, whatever other commands came between, as long as no
\* load succeeded between the two calls; so the ids of any sequence of add
\* calls are unique and strictly increasing.
C1_AddIdsIncrease ==
    [][AddStep => (out'.op = "add" /\ out'.id > sinceLoad)]_vars

\* C1: no file was ever read or written, and the second add returned 2
\* after the first returned 1.
C1_Witness ==
    /\ ~file.exists
    /\ out.op = "add"
    /\ out.id = 2
    /\ Len(tasks) = 2
    /\ tasks[1].id = 1
    /\ tasks[2].id = 2

\* C2, as claimed: nextId is strictly greater than every id held and than
\* every id addTask has returned since construction, loads included.
C2_Original ==
    /\ \A i \in DOMAIN tasks : tasks[i].id < nextId
    /\ everIssued < nextId

\* C2, amended: nextId is strictly greater than every id held and than
\* every id addTask has returned since the last successful load (since
\* construction when no load has succeeded).
C2_Amended ==
    /\ \A i \in DOMAIN tasks : tasks[i].id < nextId
    /\ sinceLoad < nextId

\* C2: after a load lowered nextId, addTask has returned an id smaller
\* than one it returned before that load.
C2_Witness ==
    /\ out.op = "add"
    /\ out.id < everIssued
    /\ sinceLoad = out.id

\* C3: no two records of the collection share an id.
C3_UniqueIds ==
    \A i, j \in DOMAIN tasks : i # j => tasks[i].id # tasks[j].id

C6_MissingFileKeepsStore ==
    [][(~file.exists /\ (Startup \/ MenuLoad)) =>
          /\ out' = Report("load", FALSE, 0)
          /\ tasks' = tasks
          /\ nextId' = nextId]_vars

\* C6: a load has just failed on a collection that holds records.
C6_Witness ==
    /\ ~file.exists
    /\ out.op = "load"
    /\ ~out.ok
    /\ tasks # <<>>
    /\ nextId > 1

\* C7, as claimed: after a successful load nextId is the largest loaded id
\* plus 1, or 1 when no record was loaded.
C7_Original ==
    LoadedOk => nextId = (IF tasks = <<>> THEN 1 ELSE MaxIdOf(tasks) + 1)

\* What nextId is after a successful load of these records: maxSeen starts
\* at 0, so ids below 1 count as 0.
ExpectedNextId(ts) == IF ts = <<>> THEN 1 ELSE Max(0, MaxIdOf(ts)) + 1

\* C7, amended: after a successful load nextId is the largest loaded id
\* plus 1 when that id is positive and 1 otherwise, whatever the order of
\* the records and the value of nextId before; an add that follows returns
\* that value.
C7_Amended ==
    /\ [](LoadedOk => nextId = ExpectedNextId(tasks))
    /\ [][(LoadedOk /\ AddStep) => out'.id = ExpectedNextId(tasks)]_vars

\* C7: a load from the menu, after addTask had issued ids, of a file that
\* holds ids 2 and 1 in this order has set nextId to 3.
C7_Witness ==
    /\ LoadedOk
    /\ everIssued > 0
    /\ Len(tasks) = 2
    /\ tasks[1].id = 2
    /\ tasks[2].id = 1
    /\ nextId = 3

-----------------------------------------------------------------------------
(* The codec on its own: a TaskManager whose caller passes addTask any      *)
(* short text, or which faces any short file, driven through save() and    *)
(* load() alone.                                                           *)

\* The longest title or notes drawn.
MaxTextLen == 2

\* The most fields a drawn line is joined from.
MaxFields == 5

TextChars == {"a", ",", "\\", " ", "\r", "\n"}

CodecTexts == UNION { [1..n -> TextChars] : n \in 0..MaxTextLen }

\* A collection of one record, as addTask and toggleComplete leave it.
CodecStores ==
    { <<Task(1, t, n, c)>> : t \in CodecTexts, n \in CodecTexts, c \in BOOLEAN }

\* What stands between the commas of a drawn line.
FieldTexts ==
    { <<>>, <<"1">>, <<"1", "x">>, <<"x">>, <<" ", "0">>, <<"a", "\\", "a">>,
      <<"\\">> }

RECURSIVE Join(_)
Join(fields) ==
    IF Len(fields) = 1 THEN fields[1]
    ELSE fields[1] \o <<",">> \o Join(Tail(fields))

CodecLines ==
    { Join(fields) : fields \in UNION { [1..k -> FieldTexts] : k \in 1..MaxFields } }

\* Files of several lines: well-formed lines around lines that are not.
MixedLines ==
    { <<"1", ",", "0", ",", "a", ",">>,
      <<"2", ",", "1", ",", "a", ",">>,
      <<"x", ",", "0", ",", "a", ",">>,
      <<"2", "x", ",", "0", ",", "a", ",">>,
      <<"2", ",", "0", ",", "a">>,
      <<" ">> }

CodecFiles ==
    {FileOf(<<l>>) : l \in CodecLines}
        \cup {FileOf(ls) : ls \in [1..3 -> MixedLines]}

InitCodec ==
    /\ \/ /\ tasks \in CodecStores
          /\ nextId = 2
          /\ file = NoFile
       \/ /\ tasks = <<>>
          /\ nextId = 1
          /\ file \in CodecFiles
    /\ writable = TRUE
    /\ pc = "codec"
    /\ out = Report("none", TRUE, 0)
    /\ sinceLoad = 0
    /\ everIssued = 0

\* manager.save()
CodecSave ==
    /\ pc = "codec"
    /\ tasks # <<>>
    /\ LET r == save(tasks, file, writable)
       IN  /\ file' = r.file
           /\ out' = Report("save", r.ret, 0)
    /\ UNCHANGED <<tasks, nextId, writable, pc, sinceLoad, everIssued>>

\* manager.load()
CodecLoad ==
    /\ pc = "codec"
    /\ file.exists
    /\ DoLoad
    /\ pc' = pc

NextCodec == CodecSave \/ CodecLoad

CodecSpec == InitCodec /\ [][NextCodec]_vars

-----------------------------------------------------------------------------
(* Properties of the codec. *)

Chars(s) == {s[i] : i \in DOMAIN s}

\* Text as the shell's readLine delivers it: no line break, and no white
\* space at either end.
PlainText(s) == \A c \in Chars(s) : c \notin {"\r", "\n"}

TrimmedText(s) == trim(s) = s

\* The collection a new TaskManager loads from what save writes for ts.
RoundTrip(ts) == load(<<>>, 1, save(ts, NoFile, TRUE).file).tasks

\* C5: a collection whose titles and notes are printable text without line
\* breaks (and without white space at either end) is the collection that
\* save followed by load into a new store yields.
C5_RoundTrip ==
    (\A i \in DOMAIN tasks :
        /\ PlainText(tasks[i].title) /\ TrimmedText(tasks[i].title)
        /\ PlainText(tasks[i].notes) /\ TrimmedText(tasks[i].notes))
    => RoundTrip(tasks) = tasks

\* The fields of a line as the format defines them: split at every comma
\* that does not immediately follow a backslash.
RECURSIVE FormatFields(_, _, _, _)
FormatFields(line, i, parts, current) ==
    IF i > Len(line) THEN Append(parts, current)
    ELSE IF line[i] = "," /\ (i = 1 \/ line[i - 1] # "\\")
    THEN FormatFields(line, i + 1, Append(parts, current), <<>>)
    ELSE FormatFields(line, i + 1, parts, Append(current, line[i]))

FieldsOf(line) == FormatFields(line, 1, <<>>, <<>>)

\* A decimal integer literal: digits, after at most one sign.
IsNumeric(s) ==
    LET body == IF s # <<>> /\ Head(s) \in {"+", "-"} THEN Tail(s) ELSE s
    IN  body # <<>> /\ \A i \in DOMAIN body : IsDigit(body[i])

\* A line C8 says is skipped.
Malformed(line) ==
    LET f == FieldsOf(line)
    IN  Len(f) < 4 \/ ~IsNumeric(f[1]) \/ ~IsNumeric(f[2])

\* The lines of a file that are neither blank nor malformed, trimmed, in
\* file order.
RECURSIVE ValidLines(_)
ValidLines(lines) ==
    IF lines = <<>> THEN <<>>
    ELSE LET line == trim(Head(lines))
         IN  (IF line = <<>> \/ Malformed(line) THEN <<>> ELSE <<line>>)
                 \o ValidLines(Tail(lines))

\* C8: a load of a file that can be opened succeeds, and the collection is
\* then the records of the lines that are neither blank nor malformed
\* (fewer than 4 fields, a non-numeric id or completed field), one record
\* a line, in file order.
C8_SkipsMalformed ==
    (out.op = "load" /\ file.exists) =>
        LET valid == ValidLines(file.lines)
        IN  /\ out.ok
            /\ Len(tasks) = Len(valid)
            /\ \A k \in DOMAIN valid :
                   fromCsv(valid[k]) = [ok |-> TRUE, task |-> tasks[k]]

\* C9: a file of one line has yielded a record only if the line splits
\* into exactly 4 fields.
C9_ExactlyFourFields ==
    (LoadedOk /\ Len(file.lines) = 1 /\ tasks # <<>>) =>
        Len(FieldsOf(trim(file.lines[1]))) = 4

\* A backslash of s that is not immediately followed by a comma.
HasLoneBackslash(s) ==
    \E i \in DOMAIN s : s[i] = "\\" /\ (i = Len(s) \/ s[i + 1] # ",")

\* C10: when a file of one line has yielded a record and its title or
\* notes field holds a backslash that is not followed by a comma, the title
\* or notes read back still holds a backslash.
C10_BackslashKept ==
    (LoadedOk /\ Len(file.lines) = 1 /\ Len(tasks) = 1) =>
        LET f == FieldsOf(trim(file.lines[1]))
        IN  Len(f) >= 4 =>
                /\ HasLoneBackslash(f[3]) => "\\" \in Chars(tasks[1].title)
                /\ HasLoneBackslash(f[4]) => "\\" \in Chars(tasks[1].notes)

-----------------------------------------------------------------------------
(* Properties of save. *)

\* C11: a save that succeeds leaves a file of exactly one line per record,
\* in the order of the collection, whatever the file held before; no line
\* holds a carriage return or a line feed, the line of a record being its
\* toCsv text, in which each of them has become a space.
C11_OneLinePerRecord ==
    [][CodecSave =>
          /\ out' = Report("save", TRUE, 0)
          /\ file'.exists
          /\ Len(file'.lines) = Len(tasks)
          /\ \A k \in DOMAIN tasks :
                 /\ file'.lines[k] = toCsv(tasks[k])
                 /\ "\r" \notin Chars(file'.lines[k])
                 /\ "\n" \notin Chars(file'.lines[k])]_vars

\* C11: a record whose title is a line feed and whose notes are a carriage
\* return has been saved as the single line "1,0, , ".
C11_Witness ==
    /\ out = Report("save", TRUE, 0)
    /\ Len(tasks) = 1
    /\ tasks[1].title = <<"\n">>
    /\ tasks[1].notes = <<"\r">>
    /\ file = FileOf(<< <<"1", ",", "0", ",", " ", ",", " ">> >>)

-----------------------------------------------------------------------------
(* More properties of the store under the menu loop. *)

\* C12: after a remove command has removed a record with some id, no
\* record of the collection has that id, and removeById called again with
\* the same id returns false.
C12_RemoveTwice ==
    [][\A id \in IdInputs :
          (MenuRemove(id) /\ out'.ok) =>
              /\ FindById(tasks', id, 1) = 0
              /\ ~removeById(tasks', id).ret]_vars

\* C13: a toggle command on an id of the collection succeeds and flips the
\* completed flag of the first record with that id, leaving nextId and the
\* file alone; toggleComplete called again with the same id returns true
\* and gives back the collection as it was before the first call.
C13_ToggleTwice ==
    [][\A id \in IdInputs :
          (FindById(tasks, id, 1) # 0 /\ MenuToggle(id)) =>
              LET i      == FindById(tasks, id, 1)
                  second == toggleComplete(tasks', id)
              IN  /\ out' = Report("toggle", TRUE, 0)
                  /\ tasks'[i].completed = ~tasks[i].completed
                  /\ nextId' = nextId
                  /\ file' = file
                  /\ second.ret
                  /\ second.tasks = tasks]_vars

\* C13: toggles have just brought the two records loaded at start back to
\* what the file holds.
C13_Witness ==
    /\ out = Report("toggle", TRUE, 0)
    /\ file = FileOf(<< <<"2", ",", "1", ",", "b", ",", "n">>,
                        <<"1", ",", "0", ",", "a", ",">> >>)
    /\ tasks = << Task(2, <<"b">>, <<"n">>, TRUE), Task(1, <<"a">>, <<>>, FALSE) >>
    /\ everIssued = 0

\* C15: a confirmed clear command succeeds, leaves the collection empty
\* and nextId as it was, so that addTask called next returns the id it
\* would have returned without the clear.
C15_ClearKeepsNextId ==
    [][\A confirm \in {"y", "Y"} :
          MenuClear(confirm) =>
              /\ out' = Report("clear", TRUE, 0)
              /\ tasks' = <<>>
              /\ nextId' = nextId
              /\ \A rawTitle \in RawTitles, rawNotes \in RawNotes :
                     addTask(tasks', nextId', trim(rawTitle), trim(rawNotes)).ret
                         = addTask(tasks, nextId, trim(rawTitle), trim(rawNotes)).ret]_vars

\* C15: the collection has just been cleared after addTask had returned
\* ids 1 and 2, and nextId is still 3.
C15_Witness ==
    /\ out = Report("clear", TRUE, 0)
    /\ tasks = <<>>
    /\ everIssued = 2
    /\ nextId = 3

\* The lines of a file that holds this collection: one toCsv line a record.
LinesOf(ts) == [k \in 1..Len(ts) |-> toCsv(ts[k])]

\* C16, as claimed: once the program has terminated through the exit
\* command, the file holds the collection as it was at exit: a load of
\* the file would yield that collection.
C16_Original ==
    pc = "done" => (out.op = "exit" /\ load(<<>>, 1, file).tasks = tasks)

\* C16, amended: the program terminates only from the menu, through the
\* exit command, which calls save on the collection as it is and ignores
\* the result: the file then holds the collection when it can be opened
\* for writing and is left as it was when it cannot; nothing happens after
\* that.  The clear command leaves the collection alone unless the answer
\* to its prompt is y or Y.
C16_Amended ==
    /\ [][(pc # "done" /\ pc' = "done") =>
              /\ pc = "menu"
              /\ out' = Report("exit", writable, 0)
              /\ tasks' = tasks
              /\ file' = save(tasks, file, writable).file
              /\ writable => file' = FileOf(LinesOf(tasks))
              /\ ~writable => file' = file]_vars
    /\ [](pc = "done" => out.op = "exit")
    /\ [][pc # "done"]_vars
    /\ [][\A confirm \in ConfirmInputs \ {"y", "Y"} :
              MenuClear(confirm) =>
                  (tasks' = tasks /\ out' = Report("cancel", FALSE, 0))]_vars

\* C16: the program has terminated through the exit command, and the file
\* holds the two records of the collection, one of them added in this run.
C16_Witness ==
    /\ pc = "done"
    /\ out = Report("exit", TRUE, 0)
    /\ Len(tasks) = 2
    /\ everIssued = tasks[2].id
    /\ file = FileOf(LinesOf(tasks))

\* Some record of the collection has this id.
Present(ts, id) == \E k \in DOMAIN ts : ts[k].id = id

\* The position of the first record with this id.
FirstWith(ts, id) ==
    CHOOSE k \in DOMAIN ts : ts[k].id = id /\ \A j \in 1..(k - 1) : ts[j].id # id

\* A step of the edit command given this id.
EditStep(id) ==
    /\ out'.op = "edit"
    /\ \E rawTitle \in RawTitles, rawNotes \in RawNotes : MenuEdit(id, rawTitle, rawNotes)

\* A step of the toggle command given this id.
ToggleStep(id) == out'.op = "toggle" /\ MenuToggle(id)

\* A step of the remove command given this id.
RemoveStep(id) == out'.op = "remove" /\ MenuRemove(id)

\* A step of the toggle, edit or remove command given this id.
ByIdStep(id) == ToggleStep(id) \/ RemoveStep(id) \/ EditStep(id)

\* C17: toggle, edit and remove given an id that no record has report
\* failure and leave the collection, nextId and the file as they were;
\* toggle and edit given an id that a record has change nothing but the
\* first record with that id, and of it toggle changes only the completed
\* flag and edit only title and notes; the number and order of the records
\* and nextId stay as they were.
C17_ByIdFrame ==
    [][\A id \in IdInputs :
          /\ (~Present(tasks, id) /\ ByIdStep(id)) =>
                 /\ ~out'.ok
                 /\ tasks' = tasks
                 /\ nextId' = nextId
                 /\ file' = file
          /\ (Present(tasks, id) /\ ToggleStep(id)) =>
                 LET i == FirstWith(tasks, id)
                 IN  /\ out'.ok
                     /\ tasks' = [tasks EXCEPT ![i].completed = tasks'[i].completed]
                     /\ nextId' = nextId
          /\ (Present(tasks, id) /\ EditStep(id)) =>
                 LET i == FirstWith(tasks, id)
                 IN  /\ out'.ok
                     /\ tasks' = [tasks EXCEPT ![i].title = tasks'[i].title,
                                               ![i].notes = tasks'[i].notes]
                     /\ nextId' = nextId]_vars

\* C17: a toggle given an id that no record has has just failed, on the
\* collection loaded at start in which an edit had given the first record
\* the title "a".
C17_Witness ==
    /\ out = Report("toggle", FALSE, 0)
    /\ file = FileOf(<< <<"2", ",", "1", ",", "b", ",", "n">>,
                        <<"1", ",", "0", ",", "a", ",">> >>)
    /\ tasks = << Task(2, <<"a">>, <<"n">>, TRUE), Task(1, <<"a">>, <<>>, FALSE) >>
    /\ nextId = 3

\* The ids of a collection, in its order.
IdsOf(ts) == [k \in 1..Len(ts) |-> ts[k].id]

\* ts without its i-th record.
Without(ts, i) == SubSeq(ts, 1, i - 1) \o SubSeq(ts, i + 1, Len(ts))

RECURSIVE FileRecords(_)
FileRecords(lines) ==
    IF lines = <<>> THEN <<>>
    ELSE LET r == fromCsv(trim(Head(lines)))
         IN  (IF trim(Head(lines)) # <<>> /\ r.ok THEN <<r.task>> ELSE <<>>)
                 \o FileRecords(Tail(lines))

\* C19: a load of a file that can be opened, at start or from the menu,
\* succeeds and leaves as the collection the records of the file's valid
\* lines in file order, whatever the collection held before, and leaves
\* the file as it is; the file changes only in a step of the save command
\* or of the exit command, which calls save.
C19_LoadReplaces ==
    /\ [][(file.exists /\ out'.op = "load" /\ (Startup \/ MenuLoad)) =>
              /\ out' = Report("load", TRUE, 0)
              /\ tasks' = FileRecords(file.lines)
              /\ file' = file]_vars
    /\ [][file' # file => (MenuSave \/ MenuExit)]_vars

\* C19: after the load at start record 1 was removed and a record with id
\* 3 added, without a save; a load from the menu has just brought back the
\* records 2 and 1 of the file.
C19_Witness ==
    /\ LoadedOk
    /\ everIssued = 3
    /\ file = FileOf(<< <<"2", ",", "1", ",", "b", ",", "n">>,
                        <<"1", ",", "0", ",", "a", ",">> >>)
    /\ tasks = << Task(2, <<"b">>, <<"n">>, TRUE), Task(1, <<"a">>, <<>>, FALSE) >>

-----------------------------------------------------------------------------
(* The store on its own: a TaskManager whose caller passes addTask,        *)
(* editTask and removeById any of a few texts and ids, without a file.     *)

\* addTask is not called once the collection holds MaxStoreTasks records.
MaxStoreTasks == 2

\* addTask is not called once nextId exceeds MaxStoreId.
MaxStoreId == 3

\* Titles and notes passed to addTask and editTask.
StoreTexts == { <<>>, <<"a">>, <<"N", "e", "w">> }

\* Ids passed to editTask and removeById.
StoreIds == 0..MaxStoreId

InitStore ==
    /\ tasks = <<>>
    /\ nextId = 1
    /\ file = NoFile
    /\ writable = FALSE
    /\ pc = "store"
    /\ out = Report("none", TRUE, 0)
    /\ sinceLoad = 0
    /\ everIssued = 0

\* manager.addTask(title, notes)
StoreAdd(title, notes) ==
    /\ pc = "store"
    /\ Len(tasks) < MaxStoreTasks
    /\ nextId <= MaxStoreId
    /\ LET r == addTask(tasks, nextId, title, notes)
       IN  /\ tasks' = r.tasks
           /\ nextId' = r.nextId
           /\ out' = Report("add", TRUE, r.ret)
           /\ sinceLoad' = Max(sinceLoad, r.ret)
           /\ everIssued' = Max(everIssued, r.ret)
    /\ UNCHANGED <<file, writable, pc>>

\* manager.editTask(id, newTitle, newNotes)
StoreEdit(id, newTitle, newNotes) ==
    /\ pc = "store"
    /\ LET r == editTask(tasks, id, newTitle, newNotes)
       IN  /\ tasks' = r.tasks
           /\ out' = Report("edit", r.ret, 0)
    /\ UNCHANGED <<nextId, file, writable, pc, sinceLoad, everIssued>>

\* manager.removeById(id)
StoreRemove(id) ==
    /\ pc = "store"
    /\ LET r == removeById(tasks, id)
       IN  /\ tasks' = r.tasks
           /\ out' = Report("remove", r.ret, 0)
    /\ UNCHANGED <<nextId, file, writable, pc, sinceLoad, everIssued>>

NextStore ==
    \/ \E title \in StoreTexts, notes \in StoreTexts : StoreAdd(title, notes)
    \/ \E id \in StoreIds, newTitle \in StoreTexts, newNotes \in StoreTexts :
           StoreEdit(id, newTitle, newNotes)
    \/ \E id \in StoreIds : StoreRemove(id)

StoreSpec == InitStore /\ [][NextStore]_vars

-----------------------------------------------------------------------------
(* Properties of editTask. *)

\* C14: editTask on an id of the collection returns true; the title of the
\* record is then the new title when that is not empty and the old title
\* when it is, and the same for the notes: edit(id, "", "") changes neither
\* and edit(id, "New", "") changes the title alone.
C14_EditKeepsOnEmpty ==
    [][\A id \in StoreIds, newTitle \in StoreTexts, newNotes \in StoreTexts :
          (FindById(tasks, id, 1) # 0 /\ StoreEdit(id, newTitle, newNotes)) =>
              LET i == FindById(tasks, id, 1)
              IN  /\ out' = Report("edit", TRUE, 0)
                  /\ tasks'[i].title =
                         (IF newTitle = <<>> THEN tasks[i].title ELSE newTitle)
                  /\ tasks'[i].notes =
                         (IF newNotes = <<>> THEN tasks[i].notes ELSE newNotes)]_vars

\* C14: an edit has just succeeded on the only record ever added, which
\* now has the title "New" and notes that are not empty.
C14_Witness ==
    /\ pc = "store"
    /\ out = Report("edit", TRUE, 0)
    /\ everIssued = 1
    /\ tasks = << Task(1, <<"N", "e", "w">>, <<"a">>, FALSE) >>

-----------------------------------------------------------------------------
(* The menu loop started on a file that holds the largest id an int can    *)
(* hold.                                                                   *)

WideLines == { << <<"2", "1", "4", "7", "4", "8", "3", "6", "4", "7",
                   ",", "0", ",", "a", ",">> >> }

InitWide ==
    /\ tasks = <<>>
    /\ nextId = 1
    /\ file \in {FileOf(ls) : ls \in WideLines}
    /\ writable \in BOOLEAN
    /\ pc = "start"
    /\ out = Report("none", TRUE, 0)
    /\ sinceLoad = 0
    /\ everIssued = 0

\* manager.load() in a build that traps on signed overflow: the records
\* are in the collection when "nextId = maxSeen + 1" ends the program.
LoadTrap ==
    /\ pc \in {"start", "menu"}
    /\ file.exists
    /\ LET r == LoadLines(file.lines, 1, <<>>, 0)
       IN  /\ r.maxSeen = IntMax
           /\ tasks' = r.tasks
    /\ out' = Report("trap", FALSE, 0)
    /\ pc' = "aborted"
    /\ UNCHANGED <<nextId, file, writable, sinceLoad, everIssued>>

NextWide == Next \/ LoadTrap

WideSpec == InitWide /\ [][NextWide]_vars

\* C20: nextId is at least 1 and greater than the id of every record of
\* the collection, so that the id addTask gives next is the id of none of
\* them.
C20_NextIdAboveIds ==
    /\ nextId >= 1
    /\ \A k \in DOMAIN tasks : tasks[k].id < nextId

====
